---------------------------- MODULE Spec2Model ----------------------------
(***************************************************************************)
(* A model of the aw_datastore layer: the Datastore registry, the Bucket   *)
(* handle (datastore.py) and the PeeweeStorage backend over its SQLite     *)
(* tables (storages/peewee.py).                                            *)
(*                                                                         *)
(* Time.  A datetime is [s, us]: whole seconds since an arbitrary origin   *)
(* and the microsecond field 0..999999.  A timedelta is [s, us] too,       *)
(* normalised as Python does (0 <= us < 1000000, s of either sign).        *)
(* SQLite holds a DATETIME column as TEXT and compares TEXT bytewise, so a *)
(* stored or bound instant is the text the adapter writes: [sec, tail],    *)
(* sec standing for the fixed-width "YYYY-MM-DD HH:MM:SS" prefix and tail  *)
(* for the characters after it up to the "+" of "+00:00".                  *)
(***************************************************************************)
EXTENDS Integers, Sequences, FiniteSets, TLC

VARIABLES
    buckets,           \* rows of the bucketmodel table
    events,            \* rows of the eventmodel table
    bucket_hash_keys,  \* PeeweeStorage.bucket_hash_keys: hash_key -> key
    bucket_instances,  \* Datastore.bucket_instances: the cached handles
    handles,           \* Bucket objects the caller still holds
    inp,               \* the arguments of the pure functions under test
    ret,               \* what the last operation did and returned
    peer               \* a second Datastore over the same database: its
                       \* bucket_hash_keys, bucket_instances and handles

vars == <<buckets, events, bucket_hash_keys, bucket_instances, handles, inp, ret, peer>>

\* An optional value: None, or Some(x).
None == <<>>
Some(x) == <<x>>

-----------------------------------------------------------------------------
(* Bounds of the model.                                                    *)

MaxEvents == 2      \* rows of eventmodel
MaxRowid == 3       \* the largest rowid either table hands out

-----------------------------------------------------------------------------
(* datetime and timedelta arithmetic                                       *)

Million == 1000000
Hours24 == 86400

Dt(s, us) == [s |-> s, us |-> us]

\* Python's normalisation of (seconds, microseconds) to 0 <= us < 1000000.
Norm(s, us) ==
    LET carry == IF us >= 0 THEN us \div Million ELSE -((-us + Million - 1) \div Million)
    IN  [s |-> s + carry, us |-> us - carry * Million]

DtPlus(dt, td) == Norm(dt.s + td.s, dt.us + td.us)
DtMinus(a, b) == Norm(a.s - b.s, a.us - b.us)
DtLt(a, b) == a.s < b.s \/ (a.s = b.s /\ a.us < b.us)
DtLeq(a, b) == a = b \/ DtLt(a, b)

-----------------------------------------------------------------------------
(* The text of an instant, and SQLite's comparison of TEXT values          *)

Ord(c) == CASE c = "+" -> 43 [] c = "." -> 46 [] c = "0" -> 48

DigitCode(d) == Ord("0") + d

\* The n low decimal digits of v, most significant first, as character codes.
RECURSIVE Digits(_, _)
Digits(v, n) == IF n = 0 THEN <<>> ELSE Append(Digits(v \div 10, n - 1), DigitCode(v % 10))

\* The value of a sequence of digit codes read as an n-digit fraction of 10^6.
RECURSIVE DigitsValue(_)
DigitsValue(ds) ==
    IF ds = <<>> THEN 0
    ELSE DigitsValue(SubSeq(ds, 1, Len(ds) - 1)) * 10 + (ds[Len(ds)] - Ord("0"))

\* str(datetime) == datetime.isoformat(" "): what the sqlite3 adapter binds
\* and stores.  The fraction is written with six digits, and not at all
\* when the microsecond field is 0.
IsoFormat(dt) ==
    [sec |-> dt.s,
     tail |-> IF dt.us = 0 THEN <<Ord("+")>>
              ELSE <<Ord(".")>> \o Digits(dt.us, 6) \o <<Ord("+")>>]

\* Reading a text back (iso8601.parse_date, SQLite's julianday()).
IsoParse(text) ==
    LET ds == SubSeq(text.tail, 2, Len(text.tail) - 1)
    IN  Dt(text.sec,
           IF Len(ds) = 0 THEN 0
           ELSE IF Len(ds) = 3 THEN DigitsValue(ds) * 1000 ELSE DigitsValue(ds))

\* SQLite keeps an instant as whole milliseconds, rounding half up.
RoundMs(dt) == Norm(dt.s, ((dt.us + 500) \div 1000) * 1000)

\* strftime("%Y-%m-%d %H:%M:%f+00:00", ...): seconds as SS.SSS, always three digits.
StrftimeF(dt) ==
    [sec |-> dt.s,
     tail |-> <<Ord(".")>> \o Digits(dt.us \div 1000, 3) \o <<Ord("+")>>]

\* memcmp order of two character sequences (SQLite's BINARY collation).
RECURSIVE SeqLeq(_, _)
SeqLeq(a, b) ==
    IF a = <<>> THEN TRUE
    ELSE IF b = <<>> THEN FALSE
    ELSE IF a[1] # b[1] THEN a[1] < b[1]
    ELSE SeqLeq(Tail(a), Tail(b))

TextLeq(a, b) == a.sec < b.sec \/ (a.sec = b.sec /\ SeqLeq(a.tail, b.tail))

\* dt_plus_duration(EventModel.timestamp, EventModel.duration)
dt_plus_duration(ts, duration) == StrftimeF(RoundMs(DtPlus(RoundMs(IsoParse(ts)), duration)))

-----------------------------------------------------------------------------
(* Bucket identity                                                         *)

\* str(n) of a non-negative int.
RECURSIVE IntStr(_)
IntStr(n) ==
    LET d == n % 10
        c == CASE d = 0 -> "0" [] d = 1 -> "1" [] d = 2 -> "2" [] d = 3 -> "3"
               [] d = 4 -> "4" [] d = 5 -> "5" [] d = 6 -> "6" [] d = 7 -> "7"
               [] d = 8 -> "8" [] d = 9 -> "9"
    IN  IF n < 10 THEN c ELSE IntStr(n \div 10) \o c

\* str(user): "None" for an absent owner.
PyStr(user) == IF user = None THEN "None" ELSE IntStr(user[1])

\* A slip: str(user or ""), which also drops the owner 0.
HashKeyDroppingFalsyOwner(name, user) ==
    name \o (IF user = None \/ user = Some(0) THEN "" ELSE IntStr(user[1]))

\* The digest is taken as injective: a hash_key is the string it digests.
calculate_bucket_hash_key(name, user) == name \o PyStr(user)

-----------------------------------------------------------------------------
(* Payload documents and their JSON text                                   *)

\* A document is a sequence of <<key, value>> items with integer values.
Docs == {<<>>, << <<"k", 1>> >>, << <<"k", 2>> >>}

RECURSIVE JsonItems(_)
JsonItems(d) ==
    IF d = <<>> THEN ""
    ELSE LET item == "\"" \o d[1][1] \o "\": " \o IntStr(d[1][2])
         IN  IF Len(d) = 1 THEN item ELSE item \o ", " \o JsonItems(Tail(d))

JsonDumps(d) == "{" \o JsonItems(d) \o "}"
JsonLoads(text) == CHOOSE d \in Docs : JsonDumps(d) = text

-----------------------------------------------------------------------------
(* The tables                                                              *)

Max(S) == CHOOSE x \in S : \A y \in S : y <= x

\* A slip: the next id taken from the number of rows.
RowidFromCount(ids) == Cardinality(ids) + 1

\* The rowid SQLite gives a new row of a table whose INTEGER PRIMARY KEY is
\* not AUTOINCREMENT: one more than the largest rowid in use.
NextRowid(ids) == IF ids = {} THEN 1 ELSE Max(ids) + 1

BucketModel(key, id, created, name, type, client, hostname, datastr, user, hash_key) ==
    [key |-> key, id |-> id, created |-> created, name |-> name, type |-> type,
     client |-> client, hostname |-> hostname, datastr |-> datastr, user |-> user,
     hash_key |-> hash_key]

EventModel(id, bucket, timestamp, duration, datastr) ==
    [id |-> id, bucket |-> bucket, timestamp |-> timestamp, duration |-> duration,
     datastr |-> datastr]

\* aw_core.models.Event
Event(id, timestamp, duration, data) ==
    [id |-> id, timestamp |-> timestamp, duration |-> duration, data |-> data]

\* EventModel.from_event: duration.total_seconds() is the exact decimal
\* number of seconds, kept as [s, us].
from_event(bucket_key, event) ==
    EventModel(event.id, bucket_key, IsoFormat(event.timestamp), event.duration,
               JsonDumps(event.data))

\* Event(**EventModel.json(row))
EventOfRow(row) ==
    Event(Some(row.id), IsoParse(row.timestamp), row.duration, JsonLoads(row.datastr))

\* update_bucket_hash_keys: the rows are read in rowid order and a later row
\* with the same hash_key overwrites the earlier entry.
HashKeyMap(rows) ==
    [h \in {b.hash_key : b \in rows} |-> Max({b.key : b \in {r \in rows : r.hash_key = h}})]

\* PeeweeStorage.buckets(): the keys of the mapping it returns.
BucketsListed == {b.hash_key : b \in buckets}

\* BucketModel.get(BucketModel.hash_key == h): the first matching row of a
\* table scan, which SQLite makes in rowid order.
FirstBucketWithHash(h) ==
    CHOOSE b \in buckets : b.hash_key = h /\ \A c \in buckets : c.hash_key = h => b.key <= c.key

\* What an operation reports: the call, the exception it raised ("" when it
\* returned), the value returned, the backend methods the layer called and
\* the number of SQL statements they executed.
Result(op, h, args, err, val, calls, sql) ==
    [op |-> op, h |-> h, args |-> args, err |-> err, val |-> val, calls |-> calls,
     sql |-> sql, log |-> <<>>]

-----------------------------------------------------------------------------
(* Datastore: the bucket lifecycle                                         *)

\* A slip: the handle constructed and cached without asking the backend.
CacheWithoutAsking(h, rows) == bucket_instances \cup {h}

\* Datastore.__getitem__: the cache after looking h up, and whether the
\* lookup raised KeyError.
LookupFails(h, rows) == h \notin bucket_instances /\ h \notin {b.hash_key : b \in rows}
CacheAfterLookup(h, rows) ==
    IF LookupFails(h, rows) THEN bucket_instances ELSE bucket_instances \cup {h}

\* PeeweeStorage.create_bucket: the row BucketModel.create inserts.
NewBucketRow(bucket_id, type_id, client, hostname, created, name, data, user) ==
    BucketModel(NextRowid({b.key : b \in buckets}), bucket_id, created, name, type_id,
                client, hostname,
                JsonDumps(IF data = None \/ data = Some(<<>>) THEN <<>> ELSE data[1]),
                user, calculate_bucket_hash_key(bucket_id, user))

\* A slip: the id column without its UNIQUE constraint.
IdNotUnique(bucket_id) == FALSE

\* The UNIQUE constraint of BucketModel.id.
IdTaken(bucket_id) == \E b \in buckets : b.id = bucket_id

\* Datastore.create_bucket -> PeeweeStorage.create_bucket, then self[hash_key].
CreateBucket(bucket_id, type_id, client, hostname, created, name, data, user) ==
    LET row == NewBucketRow(bucket_id, type_id, client, hostname, created, name, data, user)
        args == [bucket_id |-> bucket_id, user |-> user]
    IN  IF IdTaken(bucket_id)
        THEN /\ ret' = Result("create_bucket", row.hash_key, args, "IntegrityError", None,
                              <<"create_bucket">>, 1)
             /\ UNCHANGED <<buckets, events, bucket_hash_keys, bucket_instances, handles, inp, peer>>
        ELSE /\ row.key <= MaxRowid
             /\ buckets' = buckets \cup {row}
             /\ bucket_hash_keys' = HashKeyMap(buckets')
             /\ bucket_instances' = CacheAfterLookup(row.hash_key, buckets')
             /\ handles' = handles \cup {row.hash_key}
             /\ ret' = Result("create_bucket", row.hash_key, args, "", Some(row.hash_key),
                              <<"create_bucket", "buckets">>, 3)
             /\ UNCHANGED <<events, inp, peer>>

\* The lookup ds[h].
Lookup(h) ==
    /\ bucket_instances' = CacheAfterLookup(h, buckets)
    /\ IF LookupFails(h, buckets)
       THEN /\ ret' = Result("lookup", h, None, "KeyError", None, <<"buckets">>, 1)
            /\ UNCHANGED handles
       ELSE /\ ret' = Result("lookup", h, None, "", Some(h),
                             IF h \in bucket_instances THEN <<>> ELSE <<"buckets">>,
                             IF h \in bucket_instances THEN 0 ELSE 1)
            /\ handles' = handles \cup {h}
    /\ UNCHANGED <<buckets, events, bucket_hash_keys, inp, peer>>

\* A slip: bucket.name = name without the test for None.
PatchedRowClearingName(b, type_id, client, hostname, name, data) ==
    [b EXCEPT !.type = IF type_id = None THEN @ ELSE type_id[1],
              !.client = IF client = None THEN @ ELSE client[1],
              !.hostname = IF hostname = None THEN @ ELSE hostname[1],
              !.name = name,
              !.datastr = IF data = None THEN @ ELSE JsonDumps(data[1])]

\* The row update_bucket saves: each field given replaces the stored one.
PatchedRow(b, type_id, client, hostname, name, data) ==
    [b EXCEPT !.type = IF type_id = None THEN @ ELSE type_id[1],
              !.client = IF client = None THEN @ ELSE client[1],
              !.hostname = IF hostname = None THEN @ ELSE hostname[1],
              !.name = IF name = None THEN @ ELSE name,
              !.datastr = IF data = None THEN @ ELSE JsonDumps(data[1])]

\* Datastore.update_bucket -> PeeweeStorage.update_bucket
UpdateBucket(h, type_id, client, hostname, name, data) ==
    LET args == [type |-> type_id, client |-> client, hostname |-> hostname,
                 name |-> name, data |-> data]
    IN  IF h \in DOMAIN bucket_hash_keys
        THEN /\ buckets' = {IF b.key = bucket_hash_keys[h]
                            THEN PatchedRow(b, type_id, client, hostname, name, data)
                            ELSE b : b \in buckets}
             /\ ret' = Result("update_bucket", h, args, "", None, <<"update_bucket">>, 2)
             /\ UNCHANGED <<events, bucket_hash_keys, bucket_instances, handles, inp, peer>>
        ELSE /\ ret' = Result("update_bucket", h, args, "ValueError", None,
                              <<"update_bucket">>, 0)
             /\ UNCHANGED <<buckets, events, bucket_hash_keys, bucket_instances, handles, inp, peer>>

\* Datastore.delete_bucket -> PeeweeStorage.delete_bucket
DeleteBucket(h) ==
    /\ bucket_instances' = bucket_instances \ {h}
    /\ IF h \in DOMAIN bucket_hash_keys
       THEN /\ events' = {e \in events : e.bucket # bucket_hash_keys[h]}
            /\ buckets' = {b \in buckets : b.key # bucket_hash_keys[h]}
            /\ bucket_hash_keys' = HashKeyMap(buckets')
            /\ ret' = Result("delete_bucket", h, None, "", None, <<"delete_bucket">>, 3)
       ELSE /\ ret' = Result("delete_bucket", h, None, "ValueError", None,
                             <<"delete_bucket">>, 0)
            /\ UNCHANGED <<buckets, events, bucket_hash_keys>>
    /\ UNCHANGED <<handles, inp, peer>>

-----------------------------------------------------------------------------
(* Bucket: inserting and fetching events                                   *)

\* PeeweeStorage.insert_one: e.save() inserts a row when the event has no id
\* and otherwise runs UPDATE ... WHERE id = event.id.
SaveInto(rows, key, event) ==
    LET e == from_event(key, event)
    IN  IF event.id = None
        THEN rows \cup {[e EXCEPT !.id = NextRowid({r.id : r \in rows})]}
        ELSE {IF r.id = event.id[1] THEN [e EXCEPT !.id = r.id] ELSE r : r \in rows}

RowsAfterSave(key, event) == SaveInto(events, key, event)

IdAfterSave(event) ==
    IF event.id = None THEN Some(NextRowid({r.id : r \in events})) ELSE event.id

\* A slip: >= for >, warning also for an event that ends exactly now.
FutureWarningInclusive(event, now) ==
    IF DtLeq(now, DtPlus(event.timestamp, event.duration)) THEN <<"future">> ELSE <<>>

\* The warning Bucket.insert logs for an event reaching past now.
FutureWarning(event, now) ==
    IF DtLt(now, DtPlus(event.timestamp, event.duration)) THEN <<"future">> ELSE <<>>

\* Bucket.insert(event) with a single Event -> PeeweeStorage.insert_one
InsertOne(h, event, now) ==
    LET args == [event |-> event, now |-> now]
        log == FutureWarning(event, now)
    IN  /\ h \in handles
        /\ event.id = None =>
              Cardinality(events) < MaxEvents /\ NextRowid({r.id : r \in events}) <= MaxRowid
        /\ IF h \in DOMAIN bucket_hash_keys
           THEN /\ events' = RowsAfterSave(bucket_hash_keys[h], event)
                /\ ret' = [Result("insert", h, args, "",
                                  Some([event EXCEPT !.id = IdAfterSave(event)]),
                                  <<"insert_one">>, 1) EXCEPT !.log = log]
           ELSE /\ ret' = [Result("insert", h, args, "KeyError", None, <<"insert_one">>, 0)
                             EXCEPT !.log = log]
                /\ UNCHANGED events
        /\ UNCHANGED <<buckets, bucket_hash_keys, bucket_instances, handles, inp, peer>>

\* A slip: _get_event without the bucket filter.
RowsWithIdOfAnyBucket(key, event_id) == {e \in events : e.id = event_id}

\* PeeweeStorage._get_event
RowsWithId(key, event_id) == {e \in events : e.id = event_id /\ e.bucket = key}

\* PeeweeStorage.get_event, for a known hash_key: the event or None.
get_event(h, event_id) ==
    LET rows == RowsWithId(bucket_hash_keys[h], event_id)
    IN  IF rows = {} THEN None ELSE Some(EventOfRow(CHOOSE r \in rows : TRUE))

\* Bucket.get_by_id -> PeeweeStorage.get_event
GetById(h, event_id) ==
    /\ h \in handles
    /\ IF h \in DOMAIN bucket_hash_keys
       THEN ret' = Result("get_by_id", h, event_id, "", get_event(h, event_id),
                          <<"get_event">>, 1)
       ELSE ret' = Result("get_by_id", h, event_id, "KeyError", None, <<"get_event">>, 0)
    /\ UNCHANGED <<buckets, events, bucket_hash_keys, bucket_instances, handles, inp, peer>>

-----------------------------------------------------------------------------
(* Bucket: range queries                                                   *)

\* Bucket.get: starttime with its microseconds cut to whole milliseconds.
NormalizeStart(starttime) ==
    IF starttime = None THEN None
    ELSE Some([starttime[1] EXCEPT !.us = 1000 * (starttime[1].us \div 1000)])

\* A slip: the overflow into the seconds is dropped.
NormalizeEndNoCarry(endtime) ==
    IF endtime = None THEN None
    ELSE LET milliseconds == 1 + (endtime[1].us \div 1000)
         IN  Some([endtime[1] EXCEPT !.us = (1000 * milliseconds) % Million])

\* Bucket.get: endtime moved up to the next millisecond.
NormalizeEnd(endtime) ==
    IF endtime = None THEN None
    ELSE LET milliseconds == 1 + (endtime[1].us \div 1000)
             second_offset == milliseconds \div 1000
             microseconds == (1000 * milliseconds) % Million
         IN  Some(DtPlus([endtime[1] EXCEPT !.us = microseconds], Dt(second_offset, 0)))

\* PeeweeStorage._where_range: the WHERE clauses added for a row.
where_range(row, starttime, endtime) ==
    /\ starttime # None =>
          /\ TextLeq(IsoFormat(DtMinus(starttime[1], Dt(Hours24, 0))), row.timestamp)
          /\ TextLeq(IsoFormat(starttime[1]), dt_plus_duration(row.timestamp, row.duration))
    /\ endtime # None => TextLeq(row.timestamp, IsoFormat(endtime[1]))

Selected(key, starttime, endtime) ==
    {e \in events : e.bucket = key /\ where_range(e, starttime, endtime)}

\* A slip: ORDER BY timestamp without DESC.
Ascending(rows) ==
    {q \in [1..Cardinality(rows) -> rows] :
        /\ \A i, j \in 1..Cardinality(rows) : i # j => q[i] # q[j]
        /\ \A i, j \in 1..Cardinality(rows) : i < j => TextLeq(q[i].timestamp, q[j].timestamp)}

\* ORDER BY timestamp DESC: every order of the rows that is descending in the
\* timestamp text; rows of equal timestamp come in an order SQL leaves open.
Descending(rows) ==
    {q \in [1..Cardinality(rows) -> rows] :
        /\ \A i, j \in 1..Cardinality(rows) : i # j => q[i] # q[j]
        /\ \A i, j \in 1..Cardinality(rows) : i < j => TextLeq(q[j].timestamp, q[i].timestamp)}

\* LIMIT n: a negative n is no limit.
Limit(q, n) == IF n < 0 \/ n >= Len(q) THEN q ELSE SubSeq(q, 1, n)

\* A slip: the start is moved before the end is computed, so the duration
\* of an event cut at the start is one window-start too long.
TrimEndFromMovedStart(e, starttime, endtime) ==
    LET a == IF starttime # None /\ DtLt(e.timestamp, starttime[1])
             THEN [e EXCEPT !.timestamp = starttime[1],
                            !.duration = DtMinus(DtPlus(starttime[1], e.duration), starttime[1])]
             ELSE e
    IN  IF endtime # None /\ DtLt(endtime[1], DtPlus(a.timestamp, a.duration))
        THEN [a EXCEPT !.duration = DtMinus(endtime[1], a.timestamp)]
        ELSE a

\* get_events: the trimming of one fetched event to the window.
Trim(e, starttime, endtime) ==
    LET a == IF starttime # None /\ DtLt(e.timestamp, starttime[1])
             THEN [e EXCEPT !.timestamp = starttime[1],
                            !.duration = DtMinus(DtPlus(e.timestamp, e.duration), starttime[1])]
             ELSE e
    IN  IF endtime # None /\ DtLt(endtime[1], DtPlus(a.timestamp, a.duration))
        THEN [a EXCEPT !.duration = DtMinus(endtime[1], a.timestamp)]
        ELSE a

\* A slip: no early return for limit = 0; the query runs with LIMIT 0.
get_events_always_querying(h, limit, starttime, endtime) ==
    IF h \notin BucketsListed THEN {[err |-> "DoesNotExist", val |-> <<>>, sql |-> 1]}
    ELSE {[err |-> "",
           val |-> [i \in 1..Len(Limit(q, limit)) |->
                        Trim(EventOfRow(Limit(q, limit)[i]), starttime, endtime)],
           sql |-> 2] :
          q \in Descending(Selected(FirstBucketWithHash(h).key, starttime, endtime))}

\* PeeweeStorage.get_events: the outcomes it can have, each [err, val, sql].
get_events(h, limit, starttime, endtime) ==
    IF limit = 0 THEN {[err |-> "", val |-> <<>>, sql |-> 0]}
    ELSE IF h \notin BucketsListed THEN {[err |-> "DoesNotExist", val |-> <<>>, sql |-> 1]}
    ELSE {[err |-> "",
           val |-> [i \in 1..Len(Limit(q, limit)) |->
                        Trim(EventOfRow(Limit(q, limit)[i]), starttime, endtime)],
           sql |-> 2] :
          q \in Descending(Selected(FirstBucketWithHash(h).key, starttime, endtime))}

\* PeeweeStorage.get_eventcount, for a known hash_key.
get_eventcount(h, starttime, endtime) ==
    Cardinality(Selected(bucket_hash_keys[h], starttime, endtime))

\* Bucket.get -> PeeweeStorage.get_events
Get(h, limit, starttime, endtime) ==
    LET s == NormalizeStart(starttime)
        e == NormalizeEnd(endtime)
        args == [limit |-> limit, starttime |-> starttime, endtime |-> endtime,
                 start |-> s, end |-> e]
    IN  /\ h \in handles
        /\ \E out \in get_events(h, limit, s, e) :
              ret' = Result("get", h, args, out.err, out.val, <<"get_events">>, out.sql)
        /\ UNCHANGED <<buckets, events, bucket_hash_keys, bucket_instances, handles, inp, peer>>

\* Bucket.get_eventcount -> PeeweeStorage.get_eventcount
Count(h, starttime, endtime) ==
    LET args == [starttime |-> starttime, endtime |-> endtime]
    IN  /\ h \in handles
        /\ IF h \in DOMAIN bucket_hash_keys
           THEN ret' = Result("count", h, args, "", get_eventcount(h, starttime, endtime),
                              <<"get_eventcount">>, 1)
           ELSE ret' = Result("count", h, args, "KeyError", 0, <<"get_eventcount">>, 0)
        /\ UNCHANGED <<buckets, events, bucket_hash_keys, bucket_instances, handles, inp, peer>>

-----------------------------------------------------------------------------
(* Bucket: bulk insert, delete and replace                                 *)

\* The chunk length insert_many passes to chunks().
ChunkSize == 100

\* A slip: the slice ls[i : i + n - 1], one element short.
ChunksOneShort(ls, n) ==
    [k \in 1..((Len(ls) + n - 1) \div n) |->
        SubSeq(ls, (k - 1) * n + 1, IF k * n - 1 < Len(ls) THEN k * n - 1 ELSE Len(ls))]

\* chunks(ls, n): the slices ls[i : i + n] for i in range(0, len(ls), n).
chunks(ls, n) ==
    [k \in 1..((Len(ls) + n - 1) \div n) |->
        SubSeq(ls, (k - 1) * n + 1, IF k * n < Len(ls) THEN k * n ELSE Len(ls))]

HasId(e) == e.id # None
HasNoId(e) == e.id = None

\* insert_many: the events applied one by one, and the dicts of the others.
events_updates(evs) == SelectSeq(evs, HasId)
events_dictlist(key, evs) ==
    LET ls == SelectSeq(evs, HasNoId)
    IN  [i \in 1..Len(ls) |-> from_event(key, ls[i])]

\* for e in events_updates: self.insert_one(bucket_hash_key, e)
RECURSIVE ApplyUpdates(_, _, _)
ApplyUpdates(rows, key, ups) ==
    IF ups = <<>> THEN rows
    ELSE ApplyUpdates(SaveInto(rows, key, Head(ups)), key, Tail(ups))

\* EventModel.insert_many(chunk).execute(): one INSERT, the rows taking the
\* next rowids in the order of the chunk.
InsertChunk(rows, chunk) ==
    rows \cup {[chunk[i] EXCEPT !.id = NextRowid({r.id : r \in rows}) + i - 1] :
                  i \in 1..Len(chunk)}

\* for chunk in chunks(events_dictlist, 100): ... execute()
RECURSIVE InsertChunks(_, _)
InsertChunks(rows, cs) ==
    IF cs = <<>> THEN rows ELSE InsertChunks(InsertChunk(rows, Head(cs)), Tail(cs))

\* PeeweeStorage.insert_many, for a known hash_key: the table afterwards.
insert_many(rows, key, evs) ==
    InsertChunks(ApplyUpdates(rows, key, events_updates(evs)),
                 chunks(events_dictlist(key, evs), ChunkSize))

\* The warnings Bucket.insert logs for a list, in the order of the list.
RECURSIVE FutureWarnings(_, _)
FutureWarnings(evs, now) ==
    IF evs = <<>> THEN <<>> ELSE FutureWarning(Head(evs), now) \o FutureWarnings(Tail(evs), now)

\* Bucket.insert(events) with a list -> PeeweeStorage.insert_many.  An empty
\* list never reads bucket_hash_keys, so it raises nothing.
InsertMany(h, evs, now) ==
    LET args == [events |-> evs, now |-> now]
        log == FutureWarnings(evs, now)
    IN  /\ h \in handles
        /\ Cardinality(events) + Len(SelectSeq(evs, HasNoId)) <= MaxEvents
        /\ IF evs # <<>> /\ h \notin DOMAIN bucket_hash_keys
           THEN /\ ret' = [Result("insert_many", h, args, "KeyError", None,
                                  <<"insert_many">>, 0) EXCEPT !.log = log]
                /\ UNCHANGED events
           ELSE /\ events' = IF evs = <<>> THEN events
                             ELSE insert_many(events, bucket_hash_keys[h], evs)
                /\ \A r \in events' : r.id <= MaxRowid
                /\ ret' = [Result("insert_many", h, args, "", None, <<"insert_many">>,
                                  Len(events_updates(evs))
                                    + Len(chunks(SelectSeq(evs, HasNoId), ChunkSize)))
                             EXCEPT !.log = log]
        /\ UNCHANGED <<buckets, bucket_hash_keys, bucket_instances, handles, inp, peer>>

\* Bucket.delete -> PeeweeStorage.delete: the number of rows deleted.
Delete(h, event_id) ==
    /\ h \in handles
    /\ IF h \in DOMAIN bucket_hash_keys
       THEN /\ events' = events \ RowsWithId(bucket_hash_keys[h], event_id)
            /\ ret' = Result("delete", h, event_id, "",
                             Cardinality(RowsWithId(bucket_hash_keys[h], event_id)),
                             <<"delete">>, 1)
       ELSE /\ ret' = Result("delete", h, event_id, "KeyError", 0, <<"delete">>, 0)
            /\ UNCHANGED events
    /\ UNCHANGED <<buckets, bucket_hash_keys, bucket_instances, handles, inp, peer>>

\* replace / replace_last: the fetched row with the event's fields, saved.
Overwritten(row, event) ==
    [row EXCEPT !.timestamp = IsoFormat(event.timestamp), !.duration = event.duration,
                !.datastr = JsonDumps(event.data)]

\* Bucket.replace -> PeeweeStorage.replace.  _get_event gives None for an id
\* the bucket does not hold, and the assignment to its attribute raises.
Replace(h, event_id, event) ==
    LET args == [event_id |-> event_id, event |-> event]
    IN  /\ h \in handles
        /\ IF h \notin DOMAIN bucket_hash_keys
           THEN /\ ret' = Result("replace", h, args, "KeyError", None, <<"replace">>, 0)
                /\ UNCHANGED events
           ELSE IF RowsWithId(bucket_hash_keys[h], event_id) = {}
           THEN /\ ret' = Result("replace", h, args, "AttributeError", None, <<"replace">>, 1)
                /\ UNCHANGED events
           ELSE LET e == CHOOSE r \in RowsWithId(bucket_hash_keys[h], event_id) : TRUE
                IN  /\ events' = (events \ {e}) \cup {Overwritten(e, event)}
                    /\ ret' = Result("replace", h, args, "",
                                     Some([event EXCEPT !.id = Some(e.id)]), <<"replace">>, 2)
        /\ UNCHANGED <<buckets, bucket_hash_keys, bucket_instances, handles, inp, peer>>

\* A slip: _get_last without the bucket filter.
LastOfAnyBucket(key) == {q[1] : q \in Descending(events)}

\* PeeweeStorage._get_last: the rows .get() can give, the first of the
\* bucket's rows in descending order of the timestamp text.
get_last(key) == {q[1] : q \in Descending({e \in events : e.bucket = key})}

\* Bucket.replace_last -> PeeweeStorage.replace_last
ReplaceLast(h, event) ==
    /\ h \in handles
    /\ IF h \notin DOMAIN bucket_hash_keys
       THEN /\ ret' = Result("replace_last", h, event, "KeyError", None,
                             <<"replace_last">>, 0)
            /\ UNCHANGED events
       ELSE IF {e \in events : e.bucket = bucket_hash_keys[h]} = {}
       THEN /\ ret' = Result("replace_last", h, event, "DoesNotExist", None,
                             <<"replace_last">>, 1)
            /\ UNCHANGED events
       ELSE \E e \in get_last(bucket_hash_keys[h]) :
               /\ events' = (events \ {e}) \cup {Overwritten(e, event)}
               /\ ret' = Result("replace_last", h, event, "",
                                Some([event EXCEPT !.id = Some(e.id)]), <<"replace_last">>, 2)
    /\ UNCHANGED <<buckets, bucket_hash_keys, bucket_instances, handles, inp, peer>>

-----------------------------------------------------------------------------
(* Two registries over one database                                        *)

\* Bucket.metadata -> PeeweeStorage.get_metadata
Metadata(h) ==
    /\ h \in handles
    /\ IF h \in DOMAIN bucket_hash_keys
       THEN IF \E b \in buckets : b.key = bucket_hash_keys[h]
            THEN ret' = Result("metadata", h, None, "",
                               Some(CHOOSE b \in buckets : b.key = bucket_hash_keys[h]),
                               <<"get_metadata">>, 1)
            ELSE ret' = Result("metadata", h, None, "DoesNotExist", None,
                               <<"get_metadata">>, 1)
       ELSE ret' = Result("metadata", h, None, "ValueError", None, <<"get_metadata">>, 0)
    /\ UNCHANGED <<buckets, events, bucket_hash_keys, bucket_instances, handles, inp, peer>>

\* The caller turns to the other Datastore.  Each has its own PeeweeStorage
\* with its own bucket_hash_keys, its own cache and its own handles; the
\* tables are the same.  The operations act on the Datastore turned to.
OtherRegistry ==
    /\ peer' = [bucket_hash_keys |-> bucket_hash_keys, bucket_instances |-> bucket_instances,
                handles |-> handles]
    /\ bucket_hash_keys' = peer.bucket_hash_keys
    /\ bucket_instances' = peer.bucket_instances
    /\ handles' = peer.handles
    /\ ret' = Result("other_registry", "", None, "", None, <<>>, 0)
    /\ UNCHANGED <<buckets, events, inp>>

-----------------------------------------------------------------------------
(* The inputs the callers draw from                                        *)

\* The (bucket_id, owner) pairs buckets are created with: one bucket_id under
\* two owners, and two pairs whose concatenations coincide.
BucketPairs == {<<"a", Some(11)>>, <<"a1", Some(1)>>, <<"a1", None>>}
HashKeys == {calculate_bucket_hash_key(p[1], p[2]) : p \in BucketPairs}
EventIds == 1..MaxRowid

\* Instants: T0 is more than 24 hours before the others.
T0 == Dt(0, 0)
TA == Dt(Hours24 + 2, 0)
TB == Dt(Hours24 + 2, 500000)
TB1 == Dt(Hours24 + 2, 501000)
TBu == Dt(Hours24 + 2, 500400)
TC == Dt(Hours24 + 3, 0)

Zero == Dt(0, 0)
Half == Dt(0, 500000)
Long == Dt(Hours24 + 3, 0)

\* Events of the lifecycle specification.
FewEvents ==
    {Event(None, TA, Half, <<>>), Event(None, TB, Zero, << <<"k", 1>> >>),
     Event(Some(1), TB, Half, << <<"k", 2>> >>)}

\* Events and lists of the event specification; with now = TB the first
\* ends at now and the others reach into the future.
EvA == Event(None, TA, Half, <<>>)
EvB == Event(None, TB, Half, << <<"k", 1>> >>)
EvU == Event(Some(1), TC, Zero, << <<"k", 2>> >>)
EventLists == {<<>>, <<EvA, EvU>>, <<EvU, EvB>>, <<EvB, EvA>>}

\* The keyword arguments of update_bucket: <<type_id, client, hostname, name,
\* data>>, each omitted (None) or given.
Patches ==
    {<<None, None, None, None, None>>,
     <<Some("t2"), None, None, None, None>>,
     <<None, Some("c2"), Some("h2"), None, None>>,
     <<None, None, None, Some("n2"), Some(<< <<"k", 1>> >>)>>,
     <<None, None, None, None, Some(<<>>)>>}

\* Events of the query specification, all new (without id).
QueryEvents ==
    {Event(None, p[1], p[2], <<>>) :
        p \in {<<T0, Long>>, <<TA, Zero>>, <<TA, Half>>, <<TA, Dt(1, 500000)>>,
               <<TB, Half>>, <<TB1, Zero>>}}

\* Windows <<starttime, endtime>>: open on either side, closed, with
\* microseconds, empty and inverted.
QueryWindows ==
    {<<None, None>>, <<Some(TA), None>>, <<Some(TB), None>>, <<Some(TBu), None>>,
     <<Some(TC), None>>, <<None, Some(TA)>>, <<None, Some(TB)>>, <<Some(TA), Some(TB)>>,
     <<Some(TB), Some(TC)>>, <<Some(TBu), Some(TBu)>>, <<Some(TC), Some(TA)>>}
Limits == {-1, 0, 1}

-----------------------------------------------------------------------------
(* The specifications                                                      *)

Init ==
    /\ buckets = {}
    /\ events = {}
    /\ bucket_hash_keys = HashKeyMap({})
    /\ bucket_instances = {}
    /\ handles = {}
    /\ inp = None
    /\ ret = Result("init", "", None, "", None, <<>>, 0)
    /\ peer = [bucket_hash_keys |-> HashKeyMap({}), bucket_instances |-> {}, handles |-> {}]

\* The bucket lifecycle with events, on a fresh database.  Range queries
\* with their windows are the subject of SpecQuery.
Next ==
    \/ \E p \in BucketPairs :
          CreateBucket(p[1], "t1", "c", "host", "2020-01-01T00:00:00+00:00", None, None, p[2])
    \/ \E h \in HashKeys : Lookup(h)
    \/ \E h \in HashKeys, t \in {None, Some("t2")} : UpdateBucket(h, t, None, None, None, None)
    \/ \E h \in HashKeys : DeleteBucket(h)
    \/ \E h \in HashKeys, e \in FewEvents : InsertOne(h, e, TB)
    \/ \E h \in HashKeys, i \in EventIds : GetById(h, i)
    \/ \E h \in HashKeys : Count(h, None, Some(TB))

Spec == Init /\ [][Next]_vars

\* Events of several buckets: single and bulk insert, delete and replace.
NextEvents ==
    \/ \E p \in BucketPairs :
          CreateBucket(p[1], "t1", "c", "host", "2020-01-01T00:00:00+00:00", None, None, p[2])
    \/ \E h \in HashKeys, e \in {EvA, EvB, EvU} : InsertOne(h, e, TB)
    \/ \E h \in HashKeys, evs \in EventLists : InsertMany(h, evs, TB)
    \/ \E h \in HashKeys, i \in EventIds : Delete(h, i)
    \/ \E h \in HashKeys, i \in EventIds : Replace(h, i, EvB)
    \/ \E h \in HashKeys, e \in {EvA, EvB} : ReplaceLast(h, e)

SpecEvents == Init /\ [][NextEvents]_vars

\* Reads through handles that outlive their bucket.
NextStale ==
    \/ \E p \in BucketPairs :
          CreateBucket(p[1], "t1", "c", "host", "2020-01-01T00:00:00+00:00", None, None, p[2])
    \/ \E h \in HashKeys : Lookup(h)
    \/ \E h \in HashKeys : DeleteBucket(h)
    \/ \E h \in HashKeys : InsertOne(h, EvA, TB)
    \/ \E h \in HashKeys, n \in Limits, w \in {<<None, None>>, <<Some(TA), Some(TB)>>} :
          Get(h, n, w[1], w[2])
    \/ \E h \in HashKeys, w \in {<<None, None>>, <<Some(TA), Some(TB)>>} :
          Count(h, w[1], w[2])

SpecStale == Init /\ [][NextStale]_vars

\* Buckets created with a name and data, patched field by field.
NextPatch ==
    \/ \E p \in BucketPairs :
          CreateBucket(p[1], "t1", "c", "host", "2020-01-01T00:00:00+00:00", Some("n1"),
                       Some(<< <<"k", 2>> >>), p[2])
    \/ \E h \in HashKeys, p \in Patches : UpdateBucket(h, p[1], p[2], p[3], p[4], p[5])
    \/ \E h \in HashKeys : InsertOne(h, EvA, TB)

SpecPatch == Init /\ [][NextPatch]_vars

\* Two registries, each with its own storage instance, over one database.
NextTwo ==
    \/ CreateBucket("a", "t1", "c", "host", "2020-01-01T00:00:00+00:00", None, None, Some(11))
    \/ DeleteBucket("a11")
    \/ Lookup("a11")
    \/ OtherRegistry
    \/ Metadata("a11")
    \/ Count("a11", None, None)
    \/ \E e \in {EvA, EvB} : InsertOne("a11", e, TB)
    \/ \E n \in {-1, 0} : Get("a11", n, None, None)

SpecTwo == Init /\ [][NextTwo]_vars

\* Range queries over one bucket.
NextQuery ==
    \/ CreateBucket("a", "t1", "c", "host", "2020-01-01T00:00:00+00:00", None, None, None)
    \/ \E e \in QueryEvents : InsertOne("aNone", e, TC)
    \/ \E n \in Limits, w \in QueryWindows : Get("aNone", n, w[1], w[2])
    \/ \E w \in QueryWindows : Count("aNone", w[1], w[2])

SpecQuery == Init /\ [][NextQuery]_vars

-----------------------------------------------------------------------------
(* Pure functions under test                                               *)

MaxOwner == 11

HashNames == {"a", "a1"}
HashOwners == {None} \cup {Some(n) : n \in 0..MaxOwner}

InitHash ==
    /\ Init!1 /\ Init!2 /\ Init!3 /\ Init!4 /\ Init!5 /\ Init!7 /\ Init!8
    /\ inp \in [name : HashNames, u1 : HashOwners, u2 : HashOwners]

\* calculate_bucket_hash_key for one bucket_id and two owners.
HashKey ==
    /\ ret.op = "init"
    /\ ret' = Result("hash_key", "", None, "",
                     <<calculate_bucket_hash_key(inp.name, inp.u1),
                       calculate_bucket_hash_key(inp.name, inp.u2)>>, <<>>, 0)
    /\ UNCHANGED <<buckets, events, bucket_hash_keys, bucket_instances, handles, inp, peer>>

SpecHash == InitHash /\ [][HashKey]_vars

\* Sub-millisecond remainders of the microsecond field.
SubMs == {0, 1, 456, 999}

InitNorm ==
    /\ Init!1 /\ Init!2 /\ Init!3 /\ Init!4 /\ Init!5 /\ Init!7 /\ Init!8
    /\ inp \in {Dt(TA.s, 1000 * ms + r) : ms \in 0..999, r \in SubMs}

\* Bucket.get's treatment of starttime and of endtime.
NormStart ==
    /\ ret.op = "init"
    /\ ret' = Result("normalize_start", "", None, "", NormalizeStart(Some(inp))[1], <<>>, 0)
    /\ UNCHANGED <<buckets, events, bucket_hash_keys, bucket_instances, handles, inp, peer>>

NormEnd ==
    /\ ret.op = "init"
    /\ ret' = Result("normalize_end", "", None, "", NormalizeEnd(Some(inp))[1], <<>>, 0)
    /\ UNCHANGED <<buckets, events, bucket_hash_keys, bucket_instances, handles, inp, peer>>

NextNorm == NormStart \/ NormEnd

SpecNorm == InitNorm /\ [][NextNorm]_vars

\* chunks() in insert_many: lists of up to MaxList events, none or every
\* 25th of them with an id, loaded into an empty table for bucket 1.
MaxList == 201

ListOf(n, withIds) ==
    [i \in 1..n |-> Event(IF withIds /\ i % 25 = 0 THEN Some(i) ELSE None, TA, Zero,
                           << <<"k", i>> >>)]

InitChunks ==
    /\ buckets = {}
    /\ events = {}
    /\ bucket_hash_keys = HashKeyMap({})
    /\ bucket_instances = {}
    /\ handles = {}
    /\ inp \in {ListOf(n, w) : n \in 0..MaxList, w \in BOOLEAN}
    /\ ret = Result("init", "", None, "", None, <<>>, 0)
    /\ peer = [bucket_hash_keys |-> HashKeyMap({}), bucket_instances |-> {}, handles |-> {}]

BulkLoad ==
    /\ ret.op = "init"
    /\ ret' = Result("bulk_load", "", None, "",
                     [batches |-> chunks(events_dictlist(1, inp), ChunkSize),
                      rows |-> insert_many({}, 1, inp)],
                     <<"insert_many">>, 0)
    /\ UNCHANGED <<buckets, events, bucket_hash_keys, bucket_instances, handles, inp, peer>>

SpecChunks == InitChunks /\ [][BulkLoad]_vars

-----------------------------------------------------------------------------
(* Claims                                                                  *)

\* C1: a bucket_id can be used by two owners: create_bucket is refused only
\* when a bucket with the same (bucket_id, owner) pair already exists.
C1_TwoOwnersShareBucketId ==
    (ret.op = "create_bucket" /\ ret.err # "") =>
        \E b \in buckets : b.id = ret.args.bucket_id /\ b.user = ret.args.user

\* C2: no two bucket records have the same hash_key.
C2_HashKeyUnique ==
    \A b1, b2 \in buckets : b1.hash_key = b2.hash_key => b1 = b2

\* C3: the hash_key of (bucket_id, owner) is the same whenever the pair is
\* the same, and differs between any two owners of one bucket_id, an absent
\* owner included.
C3_HashKeyOfPair ==
    ret.op = "hash_key" => ((inp.u1 = inp.u2) <=> (ret.val[1] = ret.val[2]))

C3_Witness ==
    ret.op = "hash_key" /\ inp.u1 = None /\ inp.u2 # None /\ ret.val[1] # ret.val[2]

\* C6: get passes on starttime cut down to its millisecond, and endtime moved
\* to a millisecond strictly later and at most 1 ms later, carrying into the
\* next second from .999xxx.
C6_BoundaryNormalization ==
    /\ ret.op = "normalize_start" =>
          /\ ret.val = Dt(inp.s, 1000 * (inp.us \div 1000))
          /\ DtLeq(ret.val, inp)
          /\ DtLt(DtMinus(inp, ret.val), Dt(0, 1000))
          /\ inp.us = 123456 => ret.val.us = 123000
    /\ ret.op = "normalize_end" =>
          /\ ret.val.us % 1000 = 0
          /\ DtLt(inp, ret.val)
          /\ DtLeq(DtMinus(ret.val, inp), Dt(0, 1000))
          /\ inp.us \div 1000 = 999 => ret.val = Dt(inp.s + 1, 0)
          /\ inp.us = 123456 => ret.val = Dt(inp.s, 124000)

C6_Witness ==
    ret.op = "normalize_end" /\ inp.us = 999999 /\ ret.val = Dt(inp.s + 1, 0)

\* The stored row of a returned event, and the instants it spans.
StoredRow(v) == CHOOSE r \in events : r.id = v.id[1]
RowStart(r) == IsoParse(r.timestamp)
RowEnd(r) == DtPlus(RowStart(r), r.duration)
Intersects(r, start, end) ==
    /\ end # None => DtLeq(RowStart(r), end[1])
    /\ start # None => DtLeq(start[1], RowEnd(r))
RowsOfHandle(h) == {r \in events : \E b \in buckets : b.hash_key = h /\ b.key = r.bucket}
StartsBefore(r, start) == start # None /\ DtLt(RowStart(r), start[1])
EndsAfter(r, end) == end # None /\ DtLt(end[1], RowEnd(r))
Returned == {ret.val[i] : i \in 1..Len(ret.val)}

\* C4: get with a negative limit returns exactly the stored events of the
\* bucket whose interval [timestamp, timestamp + duration] meets the
\* normalized window, whatever their duration.
C4_RangeComplete ==
    (ret.op = "get" /\ ret.err = "" /\ ret.args.limit < 0) =>
        {v.id[1] : v \in Returned} =
            {r.id : r \in {x \in RowsOfHandle(ret.h) :
                              Intersects(x, ret.args.start, ret.args.end)}}

\* C5 as stated: every returned event lies inside the normalized window; one
\* stored as starting before start has timestamp = start and duration =
\* stored end - start; one stored as ending after end has duration = end -
\* reported timestamp; one wholly inside is reported as stored.
C5_Clipping ==
    (ret.op = "get" /\ ret.err = "") =>
        \A v \in Returned :
            LET r == StoredRow(v)
                s == ret.args.start
                e == ret.args.end
            IN  /\ s # None => DtLeq(s[1], v.timestamp)
                /\ e # None => DtLeq(DtPlus(v.timestamp, v.duration), e[1])
                /\ StartsBefore(r, s) =>
                      v.timestamp = s[1] /\ v.duration = DtMinus(RowEnd(r), s[1])
                /\ EndsAfter(r, e) => v.duration = DtMinus(e[1], v.timestamp)
                /\ (~StartsBefore(r, s) /\ ~EndsAfter(r, e)) =>
                      v.timestamp = RowStart(r) /\ v.duration = r.duration

\* C5 amended: as C5, the duration stored end - start being that of an event
\* that starts before start and does not end after end.
C5_ClippingInOrder ==
    (ret.op = "get" /\ ret.err = "") =>
        \A v \in Returned :
            LET r == StoredRow(v)
                s == ret.args.start
                e == ret.args.end
            IN  /\ s # None => DtLeq(s[1], v.timestamp)
                /\ e # None => DtLeq(DtPlus(v.timestamp, v.duration), e[1])
                /\ StartsBefore(r, s) => v.timestamp = s[1]
                /\ (StartsBefore(r, s) /\ ~EndsAfter(r, e)) =>
                      v.duration = DtMinus(RowEnd(r), s[1])
                /\ EndsAfter(r, e) => v.duration = DtMinus(e[1], v.timestamp)
                /\ ~StartsBefore(r, s) => v.timestamp = RowStart(r)
                /\ (~StartsBefore(r, s) /\ ~EndsAfter(r, e)) => v.duration = r.duration

C5_Witness ==
    /\ ret.op = "get" /\ ret.err = ""
    /\ \E v \in Returned :
          /\ StartsBefore(StoredRow(v), ret.args.start)
          /\ ~EndsAfter(StoredRow(v), ret.args.end)
          /\ v.timestamp = ret.args.start[1]
          /\ v.duration # StoredRow(v).duration

C8_OrderAndLimit ==
    (ret.op = "get" /\ ret.err = "" /\ ret.args.limit # 0) =>
        LET n == ret.args.limit
            M == Selected(FirstBucketWithHash(ret.h).key, ret.args.start, ret.args.end)
            R == {StoredRow(v) : v \in Returned}
        IN  /\ \A i, j \in 1..Len(ret.val) :
                  i < j => /\ ret.val[i].id # ret.val[j].id
                           /\ DtLeq(RowStart(StoredRow(ret.val[j])),
                                    RowStart(StoredRow(ret.val[i])))
            /\ R \subseteq M
            /\ n < 0 => R = M
            /\ n > 0 =>
                  /\ Len(ret.val) = IF n < Cardinality(M) THEN n ELSE Cardinality(M)
                  /\ \A m \in M \ R, r \in R : DtLeq(RowStart(m), RowStart(r))

C8_Witness ==
    /\ ret.op = "get" /\ ret.err = "" /\ ret.args.limit = 1 /\ Len(ret.val) = 1
    /\ \E m \in Selected(FirstBucketWithHash(ret.h).key, ret.args.start, ret.args.end) :
          DtLt(RowStart(m), RowStart(StoredRow(ret.val[1])))

\* C9: count(s, e) is the number of events get_events(limit < 0, s, e)
\* returns for the same handle and boundaries.
C9_CountEqualsGet ==
    (ret.op = "count" /\ ret.err = "") =>
        \A out \in get_events(ret.h, -1, ret.args.starttime, ret.args.endtime) :
            out.err = "" /\ Len(out.val) = ret.val

\* C10: inserting an event without id returns it with an id no stored event
\* had, the bucket's event count grows by one, and get_by_id with that id
\* gives its timestamp, duration and data back; get_by_id of an id the
\* bucket does not hold gives None.
C10_InsertFetchRoundTrip ==
    [][/\ (ret'.op = "insert" /\ ret'.err = "" /\ ret'.args.event.id = None) =>
              \E h \in HashKeys, i \in EventIds :
                  /\ ret'.h = h
                  /\ ret'.val = Some([ret'.args.event EXCEPT !.id = Some(i)])
                  /\ i \notin {r.id : r \in events}
                  /\ get_eventcount(h, None, None)' = get_eventcount(h, None, None) + 1
                  /\ get_event(h, i)' = ret'.val
       /\ (ret'.op = "get_by_id" /\ ret'.err = "") =>
              ((ret'.val = None) <=>
                  ~\E r \in events : r.id = ret'.args /\ r.bucket = bucket_hash_keys[ret'.h])
      ]_vars

C10_Witness ==
    /\ ret.op = "get_by_id" /\ ret.val # None
    /\ ret.val[1].timestamp = TB /\ ret.val[1].data = << <<"k", 1>> >>
    /\ Cardinality(events) = 2


\* The stored fields of an event: its timestamp, duration and data.
Carries(r, e) ==
    /\ IsoParse(r.timestamp) = e.timestamp
    /\ r.duration = e.duration
    /\ JsonLoads(r.datastr) = e.data

\* C11: after a bulk insert, for each event of the list with an id the
\* bucket holds an event with that id carrying its timestamp, duration and
\* data, whether or not the id existed before; each event of the list
\* without id is stored once as a new event of the bucket.
C11_BulkReplaceOrInsert ==
    [][(ret'.op = "insert_many" /\ ret'.err = "" /\ ret'.args.events # <<>>) =>
          \E h \in HashKeys :
              /\ ret'.h = h
              /\ LET key == bucket_hash_keys[h]
                     evs == ret'.args.events
                     fresh == {r \in events' : r.id \notin {x.id : x \in events}}
                 IN  /\ \A k \in 1..Len(evs) :
                           evs[k].id # None =>
                               \E r \in events' :
                                   r.id = evs[k].id[1] /\ r.bucket = key /\ Carries(r, evs[k])
                     /\ Cardinality(fresh) = Len(SelectSeq(evs, HasNoId))
                     /\ \A k \in 1..Len(evs) :
                           evs[k].id = None =>
                               \E r \in fresh : r.bucket = key /\ Carries(r, evs[k])
      ]_vars


\* The concatenation of a sequence of sequences.
RECURSIVE Flatten(_)
Flatten(ss) == IF ss = <<>> THEN <<>> ELSE Head(ss) \o Flatten(Tail(ss))

\* C12: the batches of a bulk insert have 1 to 100 events each, all but the
\* last exactly 100, there are ceil(n / 100) of them for n events without
\* id, their concatenation is the list of those events in its order, and
\* they are applied in that order.
C12_Chunking ==
    ret.op = "bulk_load" =>
        LET ls == SelectSeq(inp, HasNoId)
            n == Len(ls)
            bs == ret.val.batches
        IN  /\ Len(bs) = (n + 99) \div 100
            /\ \A k \in 1..Len(bs) :
                  /\ Len(bs[k]) >= 1 /\ Len(bs[k]) <= 100
                  /\ k < Len(bs) => Len(bs[k]) = 100
            /\ Len(Flatten(bs)) = n
            /\ \A i \in 1..n : Flatten(bs)[i].datastr = JsonDumps(ls[i].data)
            /\ Cardinality(ret.val.rows) = n
            /\ \A i \in 1..n :
                  \E r \in ret.val.rows : r.id = i /\ r.datastr = JsonDumps(ls[i].data)

C12_Witness ==
    /\ ret.op = "bulk_load" /\ Len(inp) = 201 /\ Len(ret.val.batches) = 3
    /\ Len(ret.val.batches[3]) = 1


ReachesFuture(e, now) == DtLt(now, DtPlus(e.timestamp, e.duration))

\* C13: insert logs a warning for an event, alone or in a list, exactly when
\* its timestamp + duration is later than now; warned or not, the call
\* fails only for a handle the backend does not know, and an event without
\* id is stored as a new event of the bucket that get_by_id returns.
C13_FutureWarningOnly ==
    [][/\ ret'.op = "insert" =>
              /\ (ret'.log # <<>>) <=> ReachesFuture(ret'.args.event, ret'.args.now)
              /\ (ret'.err = "") <=> (ret'.h \in DOMAIN bucket_hash_keys)
              /\ (ret'.err = "" /\ ret'.args.event.id = None) =>
                    \E h \in HashKeys, i \in EventIds :
                        /\ ret'.h = h
                        /\ i \notin {r.id : r \in events}
                        /\ ret'.val = Some([ret'.args.event EXCEPT !.id = Some(i)])
                        /\ get_event(h, i)' = ret'.val
       /\ ret'.op = "insert_many" =>
              LET evs == ret'.args.events
                  fresh == {r \in events' : r.id \notin {x.id : x \in events}}
              IN  /\ Len(ret'.log) =
                        Cardinality({k \in 1..Len(evs) : ReachesFuture(evs[k], ret'.args.now)})
                  /\ (ret'.err = "") <=> (evs = <<>> \/ ret'.h \in DOMAIN bucket_hash_keys)
                  /\ ret'.err = "" =>
                        \A k \in 1..Len(evs) :
                            evs[k].id = None =>
                                \E r \in fresh :
                                    /\ r.bucket = bucket_hash_keys[ret'.h]
                                    /\ Carries(r, evs[k])
      ]_vars

C13_Witness ==
    /\ ret.op = "insert" /\ ret.err = "" /\ ret.log # <<>>
    /\ ret.args.event = EvB
    /\ \E r \in events : Some(r.id) = ret.val[1].id /\ Carries(r, EvB)


\* C14: insert (single or bulk), replace, replace_last and delete on a handle
\* leave the events of every bucket other than the handle's as they are, and
\* delete removes at most the event of the handle's bucket with the given id.
C14_BucketIsolation ==
    [][(ret'.op \in {"insert", "insert_many", "replace", "replace_last", "delete"}
            /\ ret'.h \in DOMAIN bucket_hash_keys) =>
          LET key == bucket_hash_keys[ret'.h]
          IN  /\ {r \in events : r.bucket # key} = {r \in events' : r.bucket # key}
              /\ ret'.op = "delete" =>
                    /\ events' \subseteq events
                    /\ \A r \in events \ events' : r.id = ret'.args /\ r.bucket = key
      ]_vars


\* C15: a successful delete_bucket(h) leaves no cached handle, no listed
\* bucket and no event of h, and every other bucket and event as it was; a
\* failed one leaves all bucket and event records as they were.
C15_DeleteBucketEffect ==
    [][ret'.op = "delete_bucket" =>
          LET h == ret'.h
              mine == {b \in buckets : b.hash_key = h}
          IN  IF ret'.err = ""
              THEN /\ h \notin bucket_instances'
                   /\ h \notin BucketsListed'
                   /\ buckets' = buckets \ mine
                   /\ events' = {e \in events : e.bucket \notin {b.key : b \in mine}}
              ELSE /\ mine = {}
                   /\ buckets' = buckets
                   /\ events' = events
      ]_vars


\* The exceptions raised for a hash_key without bucket: KeyError from the
\* registry or from bucket_hash_keys, ValueError from update and delete,
\* DoesNotExist from BucketModel.get.
NoSuchBucket == {"KeyError", "ValueError", "DoesNotExist"}

\* C16: right after a successful delete_bucket(h), a lookup of h, and count
\* and get on a handle of h kept from before, fail with NoSuchBucket, for
\* every window and every limit, 0 included.
C16_ReadsFailAfterDelete ==
    [][(ret.op = "delete_bucket" /\ ret.err = "" /\ ret'.h = ret.h
            /\ ret'.op \in {"lookup", "get", "count"}) =>
          ret'.err \in NoSuchBucket
      ]_vars


\* The exception of a uniqueness violation.
DuplicateBucket == {"IntegrityError"}

\* C17: create_bucket for a (bucket_id, owner) pair that a stored bucket has
\* fails with DuplicateBucket and leaves the bucket records, the events and
\* the registry cache as they were.
C17_DuplicateRejected ==
    [][(ret'.op = "create_bucket"
            /\ \E b \in buckets : b.id = ret'.args.bucket_id /\ b.user = ret'.args.user) =>
          /\ ret'.err \in DuplicateBucket
          /\ buckets' = buckets
          /\ events' = events
          /\ bucket_instances' = bucket_instances
          /\ bucket_hash_keys' = bucket_hash_keys
      ]_vars

C17_Witness ==
    /\ ret.op = "create_bucket" /\ ret.err \in DuplicateBucket
    /\ \E b \in buckets :
          /\ b.id = ret.args.bucket_id /\ b.user = ret.args.user
          /\ \E e \in events : e.bucket = b.key


\* C18: update_bucket(h, fields) on a known h sets each of type, client,
\* hostname, name and data that is given and keeps the others, keeps
\* hash_key, bucket_id, owner and created, and changes no other bucket, no
\* event and no cache entry; on an unknown h it fails with NoSuchBucket and
\* changes nothing.
C18_SparsePatch ==
    [][ret'.op = "update_bucket" =>
          LET h == ret'.h
              a == ret'.args
          IN  /\ events' = events
              /\ bucket_instances' = bucket_instances
              /\ bucket_hash_keys' = bucket_hash_keys
              /\ IF h \in BucketsListed
                 THEN /\ ret'.err = ""
                      /\ \E b \in buckets, c \in buckets' :
                            /\ b.hash_key = h /\ c.key = b.key
                            /\ buckets' \ {c} = buckets \ {b}
                            /\ c.type = IF a.type = None THEN b.type ELSE a.type[1]
                            /\ c.client = IF a.client = None THEN b.client ELSE a.client[1]
                            /\ c.hostname =
                                  IF a.hostname = None THEN b.hostname ELSE a.hostname[1]
                            /\ c.name = IF a.name = None THEN b.name ELSE a.name
                            /\ JsonLoads(c.datastr) =
                                  IF a.data = None THEN JsonLoads(b.datastr) ELSE a.data[1]
                            /\ c.hash_key = b.hash_key /\ c.id = b.id
                            /\ c.user = b.user /\ c.created = b.created
                 ELSE /\ ret'.err \in NoSuchBucket
                      /\ buckets' = buckets
      ]_vars

C18_Witness ==
    /\ ret.op = "update_bucket" /\ ret.err = "" /\ ret.args.client = Some("c2")
    /\ \E b \in buckets :
          /\ b.hash_key = ret.h /\ b.client = "c2" /\ b.hostname = "h2"
          /\ b.type = "t2" /\ b.name = Some("n1") /\ JsonLoads(b.datastr) = <<>>
    /\ events # {}


\* The failure of replace for an id the bucket does not hold, and of
\* replace_last on a bucket without events.
NoSuchEvent == {"AttributeError"}
EmptyBucket == {"DoesNotExist"}

\* C19: replace(event_id, new) on a bucket holding that id gives the event
\* new's timestamp, duration and data under the same id and changes nothing
\* else; for an id the bucket does not hold, one of another bucket included,
\* it fails with NoSuchEvent and changes no event.
C19_Replace ==
    [][(ret'.op = "replace" /\ ret'.h \in DOMAIN bucket_hash_keys) =>
          LET key == bucket_hash_keys[ret'.h]
              id == ret'.args.event_id
              held == {r \in events : r.id = id /\ r.bucket = key}
          IN  IF held # {}
              THEN /\ ret'.err = ""
                   /\ \E r \in held, c \in events' :
                         /\ c.id = id /\ c.bucket = key /\ Carries(c, ret'.args.event)
                         /\ events' \ {c} = events \ {r}
                   /\ Cardinality(events') = Cardinality(events)
              ELSE /\ ret'.err \in NoSuchEvent
                   /\ events' = events
      ]_vars

C19_Witness ==
    /\ ret.op = "replace" /\ ret.err \in NoSuchEvent
    /\ \E r \in events : r.id = ret.args.event_id /\ r.bucket # bucket_hash_keys[ret.h]

\* C20: replace_last(new) on a bucket with events overwrites timestamp,
\* duration and data of one event whose stored timestamp is the latest of
\* the bucket, keeping its id and every other event; on a bucket without
\* events it fails with EmptyBucket and changes nothing.
C20_ReplaceLast ==
    [][(ret'.op = "replace_last" /\ ret'.h \in DOMAIN bucket_hash_keys) =>
          LET key == bucket_hash_keys[ret'.h]
              mine == {r \in events : r.bucket = key}
          IN  IF mine # {}
              THEN /\ ret'.err = ""
                   /\ \E r \in mine, c \in events' :
                         /\ \A m \in mine : DtLeq(RowStart(m), RowStart(r))
                         /\ c.id = r.id /\ c.bucket = key /\ Carries(c, ret'.args)
                         /\ ret'.val = Some([ret'.args EXCEPT !.id = Some(r.id)])
                         /\ events' \ {c} = events \ {r}
                   /\ Cardinality(events') = Cardinality(events)
              ELSE /\ ret'.err \in EmptyBucket
                   /\ events' = events
      ]_vars

C20_Witness ==
    /\ ret.op = "replace_last" /\ ret.err = "" /\ ret.args = EvA
    /\ \E r, m \in events :
          /\ r.bucket = bucket_hash_keys[ret.h] /\ Some(r.id) = ret.val[1].id
          /\ m.bucket = r.bucket /\ DtLt(RowStart(r), RowStart(m))


\* C21: with one registry, every cached hash_key names a bucket the backend
\* lists; a lookup of a cached hash_key returns the cached handle without
\* constructing another, and a cache entry is dropped by delete_bucket of
\* that hash_key only; a lookup of a hash_key neither cached nor listed
\* fails with NoSuchBucket and adds no cache entry.
C21_RegistryCache ==
    [][/\ bucket_instances' \subseteq BucketsListed'
       /\ \A h \in bucket_instances \ bucket_instances' :
             ret'.op = "delete_bucket" /\ ret'.h = h
       /\ ret'.op = "lookup" =>
             IF ret'.h \in bucket_instances
             THEN /\ ret'.err = "" /\ ret'.val = Some(ret'.h) /\ ret'.calls = <<>>
                  /\ bucket_instances' = bucket_instances
             ELSE IF ret'.h \in BucketsListed
             THEN /\ ret'.err = "" /\ ret'.val = Some(ret'.h)
                  /\ bucket_instances' = bucket_instances \cup {ret'.h}
             ELSE /\ ret'.err \in NoSuchBucket
                  /\ bucket_instances' = bucket_instances
      ]_vars

C21_Witness ==
    /\ ret.op = "lookup" /\ ret.err \in NoSuchBucket
    /\ ret.h \in handles /\ ret.h \notin bucket_instances
    /\ bucket_instances # {}


\* C22: every event get returns has a duration that is not negative, for
\* every window, one with start later than end or with one boundary
\* included.
C22_NonNegativeDuration ==
    (ret.op = "get" /\ ret.err = "") =>
        \A v \in Returned : DtLeq(Zero, v.duration)


\* C23: with two registries over one database, when a lookup of h succeeds
\* on a registry the bucket_hash_keys of its storage instance has h, and
\* metadata, count, insert and get on a handle do not fail for a missing
\* bucket while the database has a bucket with that hash_key.
C23_KeyMapConsistent ==
    /\ (ret.op = "lookup" /\ ret.err = "") => ret.h \in DOMAIN bucket_hash_keys
    /\ (ret.op \in {"metadata", "count", "insert", "get"} /\ ret.h \in BucketsListed) =>
          ret.err \notin NoSuchBucket

=============================================================================
